---------------------------- MODULE Spec2Model ----------------------------
(***************************************************************************)
(* A model of two pieces of the salus hypervisor:                          *)
(*                                                                         *)
(*   riscv-page-tables/src/sequential_pages.rs   SequentialPages,          *)
(*                                               SeqPageIter               *)
(*   src/vm_pages.rs                             VmPages, GuestRootBuilder *)
(*                                                                         *)
(* Addresses are machine words.  The 64-bit word of the program is scaled  *)
(* to a word that holds AddrPages pages of SIZE_BYTES bytes, so that the   *)
(* top of the address space is within reach; all address arithmetic is     *)
(* done modulo AddrSpace, or panics, as the build decides (Rust's `+`,     *)
(* `+=` and `*` panic when overflow checks are compiled in and wrap when   *)
(* they are not).                                                          *)
(***************************************************************************)
EXTENDS Integers, Sequences, FiniteSets, TLC

\* ------------------------------------------------------------------ bounds

\* Number of pages the scaled address word can name.
AddrPages == 5

\* Longest list of pages handed to from_pages.
MaxLen == 5

\* ------------------------------------------------------- program constants

\* PageSize4k::SIZE_BYTES.
SIZE_BYTES == 4096

\* One past the largest value of the address word (2^64 in the program), as
\* scaled for the checks of the range type.
SeqAddrSpace == AddrPages * SIZE_BYTES

\* The address of the highest page of the address space.
TopAddr == SeqAddrSpace - SIZE_BYTES

PageAddrs == { i * SIZE_BYTES : i \in 0 .. (AddrPages - 1) }

\* Option::None, and the abort of the program, as values no address takes.
None == 0 - 1

Panic == 0 - 2

\* Physical pages of the machine and GPA pages of each table (VmPages checks).
NumPhys == 20

NumGpa == NumPhys

\* Calls made in one behaviour of the VmPages checks.
MaxOps == 3

\* Guests add_active_guest can register before it fails.
MaxGuests == 2

VmAddrSpace == (NumPhys + 4) * SIZE_BYTES

\* --------------------------------------------------------------- variables

VARIABLES
    checks,     \* TRUE: the build panics on integer overflow; FALSE: it wraps
    phase,      \* "start" | "have_seq" | "iterating" | "exhausted" | "panicked" | "vm"
    input,      \* the pages handed to the constructor, in order
    origin,     \* which constructor made `seq`
    seq,        \* the SequentialPages value at hand, or None
    prev,       \* the SequentialPages value consumed by the last round trip
    ret,        \* "none" | "Ok" | "Err": what from_pages returned
    iter,       \* the iterator at hand: a chain of segments
    iterKind,   \* "none" | "into_iter" (of `prev`) | "error" (of from_pages)
    yielded,    \* the page addresses `iter` has yielded so far
    lenRes      \* what length_bytes() returned, or None

seqVars == << checks, phase, input, origin, seq, prev, ret, iter, iterKind,
              yielded, lenRes >>

VARIABLES
    owners,     \* PhysPages: physical page -> its stack of owner ids, bottom first
    active,     \* PhysPages: the set of active guest ids
    nextId,     \* PhysPages: the next owner id add_active_guest hands out
    table,      \* owner id -> the leaf entries of its page table, by GPA page
    nodes,      \* owner id -> the interior nodes of its table: region -> PTE page
    kind,       \* owner id -> "none" | "builder" | "vm"
    parentOf,   \* owner id -> the id whose create_guest_root_builder made it
    rootOf,     \* owner id -> the root pages of its table
    pool,       \* builder id -> the pages in its pte_pages vector
    poolPage,   \* builder id -> the page that backs its pte_pages vector
    lent,       \* history: [donor, gpa, page] donated and not yet given back
    meas,       \* owner id -> its measurement: the add_page calls, in order
    held,       \* the pages handed back to callers (state pages)
    vmRes,      \* what the last VmPages call was and what it returned
    ops,        \* the number of calls the behaviour may still make
    halted      \* TRUE once a call has panicked

vmVars == << owners, active, nextId, table, nodes, kind, parentOf, rootOf, pool,
             poolPage, lent, meas, held, vmRes, ops, halted >>

vars == << seqVars, vmVars >>

\* The address word of the specification at hand: the VmPages checks place
\* physical memory far below the top of the word.
AddrSpace == IF phase = "vm" THEN VmAddrSpace ELSE SeqAddrSpace

\* ------------------------------------------------- sequential_pages.rs

\* A successor computed with wrapping instead of checked arithmetic.
WrappingAdd(a, b) == (a + b) % AddrSpace

\* u64::checked_add.
CheckedAdd(a, b) == IF a + b >= AddrSpace THEN None ELSE a + b

\* `+` and `+=` on u64: the build decides what an overflow does.
OverflowingAdd(a, b, chk) ==
    IF a + b >= AddrSpace
      THEN (IF chk THEN Panic ELSE (a + b) % AddrSpace)
      ELSE a + b

\* `*` on u64.
OverflowingMul(a, b, chk) ==
    IF a * b >= AddrSpace
      THEN (IF chk THEN Panic ELSE (a * b) % AddrSpace)
      ELSE a * b

\* PageAddr::new: None unless the address is aligned to the page size.
PageAddrNew(a) == IF a % SIZE_BYTES = 0 THEN a ELSE None

SeqOf(a, c) == [addr |-> a, count |-> c]

\* SequentialPages::empty.
empty == SeqOf(0, 0)

\* Iterators are chains of segments: a SeqPageIter or a plain list.
SeqSeg(s) == [kind |-> "seq", pages |-> s, items |-> << >>]

ListSeg(l) == [kind |-> "list", pages |-> empty, items |-> l]

\* IntoIterator for SequentialPages.
into_iter(s) == << SeqSeg(s) >>

\* create_dummy_page_once_iter: a Once whose item was already taken.
create_dummy_page_once_iter == << ListSeg(<< >>) >>

\* core::iter::once(page).
once(p) == << ListSeg(<< p >>) >>

\* SeqPageIter::next on the pages s: [item, pages], item a page address, None
\* or Panic.
SeqPageIterNext(s, chk) ==
    IF s.count = 0
      THEN [item |-> None, pages |-> s]
      ELSE LET addr == s.addr
               bumped == OverflowingAdd(s.addr, SIZE_BYTES, chk)
           IN  IF bumped = Panic
                 THEN [item |-> Panic, pages |-> s]
                 ELSE [item |-> PageAddrNew(addr),
                       pages |-> SeqOf(bumped, s.count - 1)]

\* Iterator::next of a chain: [item, it].
RECURSIVE ChainNext(_, _)
ChainNext(it, chk) ==
    IF it = << >>
      THEN [item |-> None, it |-> it]
      ELSE LET seg == Head(it)
           IN  IF seg.kind = "seq"
                 THEN LET r == SeqPageIterNext(seg.pages, chk)
                      IN  IF r.item = None
                            THEN ChainNext(Tail(it), chk)
                            ELSE [item |-> r.item,
                                  it |-> << SeqSeg(r.pages) >> \o Tail(it)]
                 ELSE IF seg.items = << >>
                        THEN ChainNext(Tail(it), chk)
                        ELSE [item |-> Head(seg.items),
                              it |-> << ListSeg(Tail(seg.items)) >> \o Tail(it)]

\* The `while let` loop of from_pages: s is the range accepted so far.
RECURSIVE FromPagesLoop(_, _, _, _)
FromPagesLoop(page_iter, s, last_addr, chk) ==
    LET n == ChainNext(page_iter, chk)
    IN  IF n.item = Panic
          THEN [tag |-> "Panic", seq |-> s, iter |-> << >>]
          ELSE IF n.item = None
            THEN [tag |-> "Ok", seq |-> s, iter |-> << >>]
            ELSE LET this_addr == n.item
                     next_addr == CheckedAdd(last_addr, SIZE_BYTES)
                 IN  IF next_addr = None \/ this_addr # next_addr
                       THEN [tag |-> "Err", seq |-> s,
                             iter |-> into_iter(s) \o once(this_addr) \o n.it]
                       ELSE FromPagesLoop(n.it, SeqOf(s.addr, s.count + 1),
                                          this_addr, chk)

\* SequentialPages::from_pages.
from_pages(pages, chk) ==
    LET first == ChainNext(pages, chk)
    IN  IF first.item = Panic
          THEN [tag |-> "Panic", seq |-> empty, iter |-> << >>]
          ELSE IF first.item = None
            THEN [tag |-> "Err", seq |-> empty,
                  iter |-> into_iter(empty) \o create_dummy_page_once_iter
                           \o first.it]
            ELSE FromPagesLoop(first.it, SeqOf(first.item, 1), first.item, chk)

\* SequentialPages::length_bytes.
length_bytes(s, chk) == OverflowingMul(s.count, SIZE_BYTES, chk)

\* SequentialPages::from_mem_range.
from_mem_range(start, count) == SeqOf(start, count)

\* From<Page<S>> for SequentialPages<S>.
from(p) == SeqOf(p, 1)

\* ------------------------------------------- the callers of the range type

\* Lists of distinct pages (a page handle is unique), at most n long.
RECURSIVE InjSeqs(_, _)
InjSeqs(S, n) ==
    IF n = 0
      THEN { << >> }
      ELSE LET shorter == InjSeqs(S, n - 1)
           IN  shorter \cup
               { Append(l, p) : l \in { x \in shorter : Len(x) = n - 1 }, p \in S }

Range(l) == { l[i] : i \in 1 .. Len(l) }

Inputs == { l \in InjSeqs(PageAddrs, MaxLen) : Cardinality(Range(l)) = Len(l) }

\* The VmPages part at rest, while the range type is checked.
VmIdle ==
    /\ owners = << >>
    /\ active = { }
    /\ nextId = 0
    /\ table = << >>
    /\ nodes = << >>
    /\ kind = << >>
    /\ parentOf = << >>
    /\ rootOf = << >>
    /\ pool = << >>
    /\ poolPage = << >>
    /\ lent = { }
    /\ meas = << >>
    /\ held = { }
    /\ vmRes = << >>
    /\ ops = 0
    /\ halted = FALSE

SeqInit ==
    /\ checks \in BOOLEAN
    /\ phase = "start"
    /\ input = << >>
    /\ origin = "none"
    /\ seq = empty
    /\ prev = empty
    /\ ret = "none"
    /\ iter = << >>
    /\ iterKind = "none"
    /\ yielded = << >>
    /\ lenRes = None

\* What a from_pages call leaves behind.
Returned(r) ==
    /\ ret' = (IF r.tag = "Panic" THEN "none" ELSE r.tag)
    /\ seq' = (IF r.tag = "Ok" THEN r.seq ELSE empty)
    /\ iter' = r.iter
    /\ iterKind' = (IF r.tag = "Err" THEN "error" ELSE "none")
    /\ phase' = (CASE r.tag = "Ok" -> "have_seq"
                   [] r.tag = "Err" -> "iterating"
                   [] OTHER -> "panicked")
    /\ yielded' = << >>
    /\ lenRes' = None

\* from_pages(pages) on a list of pages, as the tests call it.
CallFromPages ==
    /\ phase = "start"
    /\ \E pages \in Inputs :
          /\ input' = pages
          /\ origin' = "from_pages"
          /\ Returned(from_pages(<< ListSeg(pages) >>, checks))
    /\ UNCHANGED << checks, prev >>

\* SequentialPages::from(page).
CallFrom ==
    /\ phase = "start"
    /\ \E p \in PageAddrs :
          /\ input' = << p >>
          /\ seq' = from(p)
    /\ origin' = "from"
    /\ phase' = "have_seq"
    /\ UNCHANGED << checks, prev, ret, iter, iterKind, yielded, lenRes >>

\* from_mem_range(start, count): the caller owns the range, so it lies
\* within the address space.
CallFromMemRange ==
    /\ phase = "start"
    /\ \E start \in PageAddrs, count \in 0 .. MaxLen :
          /\ start + count * SIZE_BYTES <= AddrSpace
          /\ seq' = from_mem_range(start, count)
    /\ origin' = "from_mem_range"
    /\ phase' = "have_seq"
    /\ UNCHANGED << checks, input, prev, ret, iter, iterKind, yielded, lenRes >>

\* seq.length_bytes().
CallLengthBytes ==
    /\ phase = "have_seq"
    /\ lenRes = None
    /\ lenRes' = length_bytes(seq, checks)
    /\ phase' = (IF lenRes' = Panic THEN "panicked" ELSE phase)
    /\ UNCHANGED << checks, input, origin, seq, prev, ret, iter, iterKind, yielded >>

\* seq.into_iter(): the range is consumed.
CallIntoIter ==
    /\ phase = "have_seq"
    /\ iter' = into_iter(seq)
    /\ iterKind' = "into_iter"
    /\ prev' = seq
    /\ seq' = empty
    /\ yielded' = << >>
    /\ phase' = "iterating"
    /\ UNCHANGED << checks, input, origin, ret, lenRes >>

\* One next() on the iterator at hand.
IterNext ==
    /\ phase = "iterating"
    /\ LET n == ChainNext(iter, checks)
       IN  /\ iter' = n.it
           /\ yielded' = (IF n.item \in { None, Panic }
                            THEN yielded ELSE Append(yielded, n.item))
           /\ phase' = (CASE n.item = Panic -> "panicked"
                          [] n.item = None -> "exhausted"
                          [] OTHER -> "iterating")
    /\ UNCHANGED << checks, input, origin, seq, prev, ret, iterKind, lenRes >>

\* from_pages(seq.into_iter()): the round trip.
CallRoundTrip ==
    /\ phase = "have_seq"
    /\ origin \in { "from_pages", "from", "from_mem_range" }
    /\ prev' = seq
    /\ origin' = "round_trip"
    /\ Returned(from_pages(into_iter(seq), checks))
    /\ UNCHANGED << checks, input >>

\* ---------------------------------------------------------- vm_pages.rs

\* PageOwnerId of the hypervisor (the bottom of every owner stack) and
\* PageOwnerId::host().
HypId == 0

HostId == 1

MaxId == HostId + MaxGuests

Ids == HostId .. MaxId

Phys == 0 .. (NumPhys - 1)

Gpas == 0 .. (NumGpa - 1)

\* The byte address of a page number.
AddrOf(n) == n * SIZE_BYTES

\* T::TOP_LEVEL_ALIGN of sv48x4: the `16 * 1024` of create_guest_root_builder.
TOP_LEVEL_ALIGN == 16 * 1024

\* The pages of a root table, and the pages create_guest_root_builder takes.
ROOT_PAGES == 4

GUEST_PAGES == 6

\* The most owners PhysPages stacks on one page.
MaxOwners == 4

\* GPA pages that share one interior node of a page table.
PteSpan == 16

\* Pages the pte_pages vector of a builder has room for.
PoolCap == 2

Hole == [st |-> "hole", page |-> None]

EmptyTable == [g \in Gpas |-> Hole]

Min(S) == CHOOSE x \in S : \A y \in S : x <= y

Last(l) == l[Len(l)]

\* Alignment to a page only.
IsAligned4k(a) == a % SIZE_BYTES = 0

\* `(from_addr.bits() as *const u64).align_offset(16 * 1024) != 0`, negated.
IsAligned16k(a) == a % (16 * 1024) = 0

\* PhysPages::set_page_owner: the push fails on a full stack.
CanPush(own, p) == Len(own[p]) < MaxOwners

Push(own, p, id) == [own EXCEPT ![p] = Append(@, id)]

\* PhysPages::pop_owner: the hypervisor's entry at the bottom is never popped.
CanPop(own, p) == Len(own[p]) > 1

Pop(own, p) == [own EXCEPT ![p] = SubSeq(@, 1, Len(@) - 1)]

\* PageVec::try_reserve(1): the vector lives in one page and holds at most
\* PoolCap pages.
CanReserve(pl) == Len(pl) < PoolCap

\* invalidate_range and unmap_range return None for a base that is not
\* TOP_LEVEL_ALIGN-aligned or a range that leaves the table's address space.
RangeOk(from_gpa, count) ==
    /\ AddrOf(from_gpa) % TOP_LEVEL_ALIGN = 0
    /\ from_gpa + count <= NumGpa

\* The next GPA page in cur .. end-1 whose entry is in sts, or None.
NextEntry(t, cur, end, sts) ==
    LET S == { g \in cur .. (end - 1) : t[g].st \in sts }
    IN  IF S = { } THEN None ELSE Min(S)

\* T::new: the root is ROOT_PAGES pages at a TOP_LEVEL_ALIGN-aligned address.
RootOk(s) == s.count = ROOT_PAGES /\ s.addr % TOP_LEVEL_ALIGN = 0

\* T::map_page_4k(gpa, page, get_pte_page) on the table (t, nd) with the
\* PTE supplier popping the vector pl: a missing interior node takes a page off
\* the supplier, then the leaf is installed unless the slot holds a page.
MapPage4k(t, nd, pl, gpa, page) ==
    LET region == gpa \div PteSpan
        have == region \in DOMAIN nd
    IN  IF gpa >= NumGpa
          THEN [ok |-> FALSE, t |-> t, nd |-> nd, pl |-> pl]
          ELSE IF ~have /\ pl = << >>
            THEN [ok |-> FALSE, t |-> t, nd |-> nd, pl |-> pl]
            ELSE LET nd1 == IF have THEN nd ELSE nd @@ (region :> Last(pl))
                     pl1 == IF have THEN pl ELSE SubSeq(pl, 1, Len(pl) - 1)
                 IN  IF t[gpa].st # "hole"
                       THEN [ok |-> FALSE, t |-> t, nd |-> nd1, pl |-> pl1]
                       ELSE [ok |-> TRUE,
                             t |-> [t EXCEPT ![gpa] = [st |-> "valid", page |-> page]],
                             nd |-> nd1, pl |-> pl1]

\* What a call returned; n is the number inside an Ok(count).
Res(op, tag, err, addr, id, page) ==
    [op |-> op, tag |-> tag, err |-> err, addr |-> addr, id |-> id, page |-> page,
     n |-> None]

\* The result r of a call that ends in `Ok(count)` when its loop raised no
\* error.
OkCount(r, count) == [r EXCEPT !.n = IF r.tag = "Ok" THEN count ELSE None]

\* The state after host construction: the host's table maps every page of
\* memory at the GPA of its own address, and the host owns each of them.
VmInitOwners == [p \in Phys |-> << HypId, HostId >>]

VmInitTable ==
    [i \in Ids |->
       IF i = HostId
         THEN [g \in Gpas |-> [st |-> "valid", page |-> g]]
         ELSE EmptyTable]

VmInit ==
    /\ owners = VmInitOwners
    /\ active = { HostId }
    /\ nextId = HostId + 1
    /\ table = VmInitTable
    /\ nodes = [i \in Ids |-> << >>]
    /\ kind = [i \in Ids |-> IF i = HostId THEN "vm" ELSE "none"]
    /\ parentOf = [i \in Ids |-> HypId]
    /\ rootOf = [i \in Ids |-> empty]
    /\ pool = [i \in Ids |-> << >>]
    /\ poolPage = [i \in Ids |-> None]
    /\ lent = { }
    /\ meas = [i \in Ids |-> << >>]
    /\ held = { }
    /\ vmRes = Res("none", "none", "none", None, HypId, None)
    /\ ops = MaxOps
    /\ halted = FALSE

\* The range type at rest, while VmPages is checked.  No address of these
\* checks comes near the top of the word, so the build's overflow behaviour
\* plays no part.
SeqIdle ==
    /\ checks = TRUE
    /\ phase = "vm"
    /\ input = << >>
    /\ origin = "none"
    /\ seq = empty
    /\ prev = empty
    /\ ret = "none"
    /\ iter = << >>
    /\ iterKind = "none"
    /\ yielded = << >>
    /\ lenRes = None

\* A call can be made: the machine runs and the call budget is not spent.
CanCall(c) ==
    /\ ~halted
    /\ ops > 0
    /\ kind[c] = "vm"

\* History: the pages of the donor c's range whose owner stack the call
\* pushed on (own1 is PhysPages after the call).
DonatedIn(t, own0, c, from_gpa, count, own1) ==
    { [donor |-> c, gpa |-> g, page |-> t[g].page] :
        g \in { x \in from_gpa .. (from_gpa + count - 1) :
                  /\ t[x].st = "valid"
                  /\ own1[t[x].page] # own0[t[x].page] } }

Donated(c, from_gpa, count, own1) ==
    DonatedIn(table[c], owners, c, from_gpa, count, own1)

\* History: what is left of lent after the VM c gave back, to its parent, the
\* pages it popped its own id off.
GivenBack(c, own1) ==
    { l \in lent :
        ~(/\ l.donor = parentOf[c]
          /\ own1[l.page] # owners[l.page]
          /\ Last(owners[l.page]) = c) }

\* The lazy iterator of create_guest_root_builder, pulled n times:
\* invalidate_range's next valid entry, unwrap_4k, set_page_owner(..).unwrap().
\* w = [own, t, panic]; the result carries the pages pulled and the cursor.
RECURSIVE PullOwned(_, _, _, _, _, _)
PullOwned(w, cur, end, id, n, acc) ==
    IF n = 0
      THEN [w |-> w, pages |-> acc, cur |-> cur]
      ELSE LET g == NextEntry(w.t, cur, end, { "valid" })
           IN  IF g = None
                 THEN [w |-> w, pages |-> acc, cur |-> end]
                 ELSE LET p == w.t[g].page
                          t1 == [w.t EXCEPT ![g].st = "invalid"]
                      IN  IF ~CanPush(w.own, p)
                            THEN [w |-> [own |-> w.own, t |-> t1, panic |-> TRUE],
                                  pages |-> acc, cur |-> g + 1]
                            ELSE CHOOSE r \in
                                   { PullOwned(w1, g + 1, end, id, n - 1,
                                               Append(acc, p)) :
                                     w1 \in { [own |-> Push(w.own, p, id),
                                               t |-> t1, panic |-> FALSE] } } :
                                   TRUE

\* The pages the first n pulls would yield, without their effects.
RECURSIVE Peek(_, _, _, _)
Peek(t, cur, end, n) ==
    IF n = 0
      THEN << >>
      ELSE LET g == NextEntry(t, cur, end, { "valid" })
           IN  IF g = None
                 THEN << >>
                 ELSE << t[g].page >> \o Peek(t, g + 1, end, n - 1)

\* The fifth and sixth page in each other's role.
ChildPagesSwapped(root, fifth, sixth) ==
    [root |-> root, pte_page |-> sixth, state_page |-> fifth]

\* How the pages pulled by a successful create_guest_root_builder are used.
ChildPages(root, fifth, sixth) ==
    [root |-> root, pte_page |-> fifth, state_page |-> sixth]

\* The body of create_guest_root_builder after add_active_guest returned id
\* and invalidate_range returned an iterator: [tag, own, t, child].
CreateBody(own, t, from_gpa, id) ==
    LET end == from_gpa + GUEST_PAGES
        cand == Peek(t, from_gpa, end, ROOT_PAGES)
        r == from_pages(<< ListSeg([i \in 1 .. Len(cand) |-> AddrOf(cand[i])]) >>,
                        checks)
        \* from_pages stops pulling at the first page it rejects
        taken == IF r.tag = "Ok" THEN Len(cand)
                 ELSE IF cand = << >> THEN 0 ELSE r.seq.count + 1
        no_child == ChildPages(empty, None, None)
        Stopped(q) == [tag |-> "Panic", own |-> q.w.own, t |-> q.w.t,
                       child |-> no_child]
    IN  CHOOSE b \in
          { IF p1.w.panic \/ r.tag # "Ok" \/ ~RootOk(r.seq)
              THEN Stopped(p1)
              ELSE CHOOSE b2 \in
                     { IF p2.w.panic \/ p2.pages = << >>
                         THEN Stopped(p2)
                         ELSE CHOOSE b3 \in
                                { IF p3.w.panic \/ p3.pages = << >>
                                    THEN Stopped(p3)
                                    ELSE [tag |-> "Ok", own |-> p3.w.own,
                                          t |-> p3.w.t,
                                          child |-> ChildPages(r.seq, p2.pages[1],
                                                               p3.pages[1])] :
                                  p3 \in { PullOwned(p2.w, p2.cur, end, id, 1,
                                                     << >>) } } : TRUE :
                       p2 \in { PullOwned(p1.w, p1.cur, end, id, 1, << >>) } } :
                     TRUE :
            p1 \in { PullOwned([own |-> own, t |-> t, panic |-> FALSE],
                               from_gpa, end, id, taken, << >>) } } : TRUE

\* VmPages::create_guest_root_builder(from_addr) on the VM c.
CreateGuestRootBuilder(c, from_gpa) ==
    /\ CanCall(c)
    /\ ops' = ops - 1
    /\ IF ~IsAligned16k(AddrOf(from_gpa))
         THEN /\ vmRes' = Res("create", "Err", "UnalignedVmPages",
                              AddrOf(from_gpa), HypId, None)
              /\ UNCHANGED << owners, active, nextId, table, nodes, kind,
                              parentOf, rootOf, pool, poolPage, lent, meas,
                              held, halted >>
         ELSE IF nextId > MaxId
           THEN \* add_active_guest failed
                /\ vmRes' = Res("create", "Err", "GuestId", None, HypId, None)
                /\ UNCHANGED << owners, active, nextId, table, nodes, kind,
                                parentOf, rootOf, pool, poolPage, lent, meas,
                                held, halted >>
           ELSE /\ active' = active \cup { nextId }
                /\ nextId' = nextId + 1
                /\ IF ~RangeOk(from_gpa, GUEST_PAGES)
                     THEN /\ vmRes' = Res("create", "Err", "InvalidRange", None,
                                          HypId, None)
                          /\ UNCHANGED << owners, table, nodes, kind, parentOf,
                                          rootOf, pool, poolPage, lent, meas,
                                          held, halted >>
                     ELSE \E b \in { CreateBody(owners, table[c], from_gpa, nextId) } :
                              /\ owners' = b.own
                              /\ table' = [table EXCEPT ![c] = b.t]
                              /\ halted' = (b.tag = "Panic")
                              /\ vmRes' = Res("create", b.tag, "none", None,
                                              IF b.tag = "Ok" THEN nextId ELSE HypId,
                                              b.child.state_page)
                              /\ IF b.tag = "Ok"
                                   THEN \* GuestRootBuilder::new(root, pte_page):
                                        \* an empty vector in the storage of pte_page
                                        /\ kind' = [kind EXCEPT ![nextId] = "builder"]
                                        /\ parentOf' = [parentOf EXCEPT ![nextId] = c]
                                        /\ rootOf' = [rootOf EXCEPT ![nextId] = b.child.root]
                                        /\ pool' = [pool EXCEPT ![nextId] = << >>]
                                        /\ poolPage' = [poolPage EXCEPT ![nextId] = b.child.pte_page]
                                        /\ meas' = [meas EXCEPT ![nextId] = << >>]
                                        /\ held' = held \cup { b.child.state_page }
                                   ELSE UNCHANGED << kind, parentOf, rootOf, pool,
                                                     poolPage, meas, held >>
                              /\ lent' = lent \cup Donated(c, from_gpa, GUEST_PAGES,
                                                            b.own)
                              /\ UNCHANGED nodes

\* The loop of add_4k_pages_builder over invalidate_range(from_addr, count)
\* zipped with to_addr.iter_from(): w = [own, t, ct, nd, pl, ms, err], with t
\* the donor's table and ct, nd, pl, ms the builder's table, interior nodes,
\* pte_pages and measurement.
RECURSIVE DonateLoop(_, _, _, _, _, _)
DonateLoop(w, cur, end, id, guest, measure_preserve) ==
    LET g == NextEntry(w.t, cur, end, { "valid" })
    IN  IF g = None
          THEN w
          ELSE LET p == w.t[g].page
                   t1 == [w.t EXCEPT ![g].st = "invalid"]
               IN  IF ~CanPush(w.own, p)
                     THEN [w EXCEPT !.t = t1, !.err = "SettingOwner"]
                     ELSE LET \* add_data_page measures before it maps
                              ms1 == IF measure_preserve
                                       THEN Append(w.ms, << AddrOf(guest), p >>)
                                       ELSE w.ms
                              m == MapPage4k(w.ct, w.nd, w.pl, guest, p)
                              w1 == [own |-> Push(w.own, p, id), t |-> t1,
                                     ct |-> m.t, nd |-> m.nd, pl |-> m.pl,
                                     ms |-> ms1,
                                     err |-> IF m.ok THEN "none" ELSE "Mapping4kPage",
                                     \* the error carries the page back
                                     back |-> IF m.ok THEN None ELSE p]
                          IN  IF ~m.ok
                                THEN w1
                                ELSE CHOOSE r \in
                                       { DonateLoop(x, g + 1, end, id, guest + 1,
                                                    measure_preserve) :
                                         x \in { w1 } } : TRUE

\* A donation that leaves nothing behind when it fails.
Add4kPagesBuilderAtomic(c, from_gpa, count, to, to_gpa, measure_preserve) ==
    /\ CanCall(c)
    /\ kind[to] = "builder"
    /\ ops' = ops - 1
    /\ IF ~RangeOk(from_gpa, count)
         THEN /\ vmRes' = Res("add_4k", "Err", "InvalidRange", None, HypId, None)
              /\ UNCHANGED << owners, table, nodes, pool, meas, lent, held >>
         ELSE \E d \in { DonateLoop([own |-> owners, t |-> table[c],
                                      ct |-> table[to], nd |-> nodes[to],
                                      pl |-> pool[to], ms |-> meas[to],
                                      err |-> "none", back |-> None],
                                     from_gpa, from_gpa + count, to, to_gpa,
                                     measure_preserve) } :
                  /\ vmRes' = OkCount(Res("add_4k",
                                          IF d.err = "none" THEN "Ok" ELSE "Err",
                                          d.err, None, HypId, d.back), count)
                  /\ IF d.err = "none"
                       THEN /\ owners' = d.own
                            /\ table' = [table EXCEPT ![c] = d.t, ![to] = d.ct]
                            /\ nodes' = [nodes EXCEPT ![to] = d.nd]
                            /\ pool' = [pool EXCEPT ![to] = d.pl]
                            /\ meas' = [meas EXCEPT ![to] = d.ms]
                            /\ lent' = lent \cup Donated(c, from_gpa, count, d.own)
                            /\ held' = held
                       ELSE UNCHANGED << owners, table, nodes, pool, meas, lent,
                                         held >>
    /\ UNCHANGED << active, nextId, kind, parentOf, rootOf, poolPage, halted >>

\* VmPages::add_4k_pages_builder(from_addr, count, to, to_addr, measure_preserve).
Add4kPagesBuilder(c, from_gpa, count, to, to_gpa, measure_preserve) ==
    /\ CanCall(c)
    /\ kind[to] = "builder"
    /\ ops' = ops - 1
    /\ IF ~RangeOk(from_gpa, count)
         THEN /\ vmRes' = Res("add_4k", "Err", "InvalidRange", None, HypId, None)
              /\ UNCHANGED << owners, table, nodes, pool, meas, lent, held >>
         ELSE \E d \in { DonateLoop([own |-> owners, t |-> table[c],
                                      ct |-> table[to], nd |-> nodes[to],
                                      pl |-> pool[to], ms |-> meas[to],
                                      err |-> "none", back |-> None],
                                     from_gpa, from_gpa + count, to, to_gpa,
                                     measure_preserve) } :
                  /\ owners' = d.own
                  /\ table' = [table EXCEPT ![c] = d.t, ![to] = d.ct]
                  /\ nodes' = [nodes EXCEPT ![to] = d.nd]
                  /\ pool' = [pool EXCEPT ![to] = d.pl]
                  /\ meas' = [meas EXCEPT ![to] = d.ms]
                  /\ lent' = lent \cup Donated(c, from_gpa, count, d.own)
                  /\ held' = IF d.back = None THEN held ELSE held \cup { d.back }
                  /\ vmRes' = OkCount(Res("add_4k",
                                          IF d.err = "none" THEN "Ok" ELSE "Err",
                                          d.err, None, HypId, d.back), count)
    /\ UNCHANGED << active, nextId, kind, parentOf, rootOf, poolPage, halted >>

\* A loop that pops whatever the stack holds, its last entry included.
RECURSIVE RemoveLoopPoppingAll(_, _, _, _)
RemoveLoopPoppingAll(w, cur, end, owner_id) ==
    LET g == NextEntry(w.t, cur, end, { "valid", "invalid" })
    IN  IF g = None
          THEN w
          ELSE LET p == w.t[g].page
                   t1 == [w.t EXCEPT ![g] = Hole]
               IN  IF Last(w.own[p]) # owner_id
                     THEN [own |-> Pop(w.own, p), t |-> t1,
                           err |-> "UnownedPage", addr |-> AddrOf(p)]
                     ELSE CHOOSE r \in
                            { RemoveLoopPoppingAll(x, g + 1, end, owner_id) :
                              x \in { [own |-> Pop(w.own, p), t |-> t1,
                                       err |-> "none", addr |-> None] } } :
                            TRUE

\* The loop of remove_4k_pages over unmap_range(from_addr, count):
\* w = [own, t, err, addr].  pop_owner runs before the owner is compared.
RECURSIVE RemoveLoop(_, _, _, _)
RemoveLoop(w, cur, end, owner_id) ==
    LET g == NextEntry(w.t, cur, end, { "valid", "invalid" })
    IN  IF g = None
          THEN w
          ELSE LET p == w.t[g].page
                   t1 == [w.t EXCEPT ![g] = Hole]
               IN  IF ~CanPop(w.own, p)
                     THEN [own |-> w.own, t |-> t1, err |-> "UnownedPage",
                           addr |-> AddrOf(p)]
                     ELSE IF Last(w.own[p]) # owner_id
                       THEN [own |-> Pop(w.own, p), t |-> t1,
                             err |-> "UnownedPage", addr |-> AddrOf(p)]
                       ELSE CHOOSE r \in
                              { RemoveLoop(x, g + 1, end, owner_id) :
                                x \in { [own |-> Pop(w.own, p), t |-> t1,
                                         err |-> "none", addr |-> None] } } :
                              TRUE

\* The loop of add_pte_pages_builder over invalidate_range(from_addr, count):
\* w = [own, t, pl, err], with t the donor's table and pl the builder's
\* pte_pages.  add_pte_page takes the page and fails when try_reserve does.
RECURSIVE PteLoop(_, _, _, _)
PteLoop(w, cur, end, id) ==
    LET g == NextEntry(w.t, cur, end, { "valid" })
    IN  IF g = None
          THEN w
          ELSE LET p == w.t[g].page
                   t1 == [w.t EXCEPT ![g].st = "invalid"]
               IN  IF ~CanPush(w.own, p)
                     THEN [w EXCEPT !.t = t1, !.err = "SettingOwner"]
                     ELSE IF ~CanReserve(w.pl)
                       THEN [own |-> Push(w.own, p, id), t |-> t1, pl |-> w.pl,
                             err |-> "InsufficientPtePageStorage"]
                       ELSE CHOOSE r \in
                              { PteLoop(x, g + 1, end, id) :
                                x \in { [own |-> Push(w.own, p, id), t |-> t1,
                                         pl |-> Append(w.pl, p),
                                         err |-> "none"] } } : TRUE

\* VmPages::add_pte_pages_builder(from_addr, count, to).
AddPtePagesBuilder(c, from_gpa, count, to) ==
    /\ CanCall(c)
    /\ kind[to] = "builder"
    /\ ops' = ops - 1
    /\ IF ~RangeOk(from_gpa, count)
         THEN /\ vmRes' = Res("add_pte", "Err", "InvalidRange", None, HypId, None)
              /\ UNCHANGED << owners, table, pool, lent >>
         ELSE \E d \in { PteLoop([own |-> owners, t |-> table[c], pl |-> pool[to],
                                   err |-> "none"],
                                  from_gpa, from_gpa + count, to) } :
                  /\ owners' = d.own
                  /\ table' = [table EXCEPT ![c] = d.t]
                  /\ pool' = [pool EXCEPT ![to] = d.pl]
                  /\ lent' = lent \cup Donated(c, from_gpa, count, d.own)
                  /\ vmRes' = Res("add_pte", IF d.err = "none" THEN "Ok" ELSE "Err",
                                  d.err, None, HypId, None)
    /\ UNCHANGED << active, nextId, nodes, kind, parentOf, rootOf, poolPage, meas,
                    held, halted >>

\* VmPages::remove_4k_pages(from_addr, count).
Remove4kPages(c, from_gpa, count) ==
    /\ CanCall(c)
    /\ ops' = ops - 1
    /\ IF ~RangeOk(from_gpa, count)
         THEN /\ vmRes' = Res("remove", "Err", "InvalidRange", None, HypId, None)
              /\ UNCHANGED << owners, table, lent >>
         ELSE \E d \in { RemoveLoop([own |-> owners, t |-> table[c],
                                      err |-> "none", addr |-> None],
                                     from_gpa, from_gpa + count, c) } :
                  /\ owners' = d.own
                  /\ table' = [table EXCEPT ![c] = d.t]
                  /\ lent' = GivenBack(c, d.own)
                  /\ vmRes' = OkCount(Res("remove",
                                          IF d.err = "none" THEN "Ok" ELSE "Err",
                                          d.err, d.addr, HypId, None), count)
    /\ UNCHANGED << active, nextId, nodes, kind, parentOf, rootOf, pool, poolPage,
                    meas, held, halted >>

\* GuestRootBuilder::create_pages: the builder becomes a VmPages.
CreatePages(b) ==
    /\ ~halted
    /\ ops > 0
    /\ kind[b] = "builder"
    /\ ops' = ops - 1
    /\ kind' = [kind EXCEPT ![b] = "vm"]
    /\ pool' = [pool EXCEPT ![b] = << >>]
    /\ poolPage' = [poolPage EXCEPT ![b] = None]
    /\ vmRes' = Res("create_pages", "Ok", "none", None, b, None)
    /\ UNCHANGED << owners, active, nextId, table, nodes, parentOf, rootOf, meas,
                    lent, held, halted >>

\* A drop that leaves the id registered.
DropVmPagesKeepingId(c) ==
    /\ CanCall(c)
    /\ ops' = ops - 1
    /\ active' = active
    /\ kind' = [kind EXCEPT ![c] = "dropped"]
    /\ vmRes' = Res("drop", "Ok", "none", None, c, None)
    /\ UNCHANGED << owners, nextId, table, nodes, parentOf, rootOf, pool,
                    poolPage, lent, meas, held, halted >>

\* Drop for VmPages: rm_active_guest(self.root.page_owner_id()).
DropVmPages(c) ==
    /\ CanCall(c)
    /\ ops' = ops - 1
    /\ active' = active \ { c }
    /\ kind' = [kind EXCEPT ![c] = "dropped"]
    /\ vmRes' = Res("drop", "Ok", "none", None, c, None)
    /\ UNCHANGED << owners, nextId, table, nodes, parentOf, rootOf, pool,
                    poolPage, lent, meas, held, halted >>

\* The arguments the calls are tried with.
FromGpas == { g \in Gpas : IsAligned16k(AddrOf(g)) } \cup { 1 }

Counts == { 2, GUEST_PAGES, 2 * GUEST_PAGES }

ToGpas == { 0, PteSpan }

VmNext ==
    \/ \E c \in Ids, g \in FromGpas :
          CreateGuestRootBuilder(c, g) /\ UNCHANGED seqVars
    \/ \E c \in Ids, g \in FromGpas, n \in Counts, to \in Ids, tg \in ToGpas,
          mp \in BOOLEAN :
          Add4kPagesBuilder(c, g, n, to, tg, mp) /\ UNCHANGED seqVars
    \/ \E c \in Ids, g \in FromGpas, n \in Counts, to \in Ids :
          AddPtePagesBuilder(c, g, n, to) /\ UNCHANGED seqVars
    \/ \E c \in Ids, g \in FromGpas, n \in Counts :
          Remove4kPages(c, g, n) /\ UNCHANGED seqVars
    \/ \E b \in Ids : CreatePages(b) /\ UNCHANGED seqVars
    \/ \E c \in Ids : DropVmPages(c) /\ UNCHANGED seqVars

VmStart == SeqIdle /\ VmInit

VmSpec == VmStart /\ [][VmNext]_vars

\* A host that has built one guest: create_guest_root_builder(0) on the host,
\* add_pte_pages_builder of the two pages left below NestFirst,
\* add_4k_pages_builder of the host's pages NestFirst .. NumPhys-1 to the
\* guest's GPA 0, then create_pages.  The guest has id HostId + 1.
NestFirst == 8

NestOps == 6

NestCreated == CreateBody(VmInitOwners, VmInitTable[HostId], 0, HostId + 1)

NestPte(cr) ==
    PteLoop([own |-> cr.own, t |-> cr.t, pl |-> << >>, err |-> "none"],
            ROOT_PAGES, NestFirst, HostId + 1)

NestDonated(pt) ==
    DonateLoop([own |-> pt.own, t |-> pt.t, ct |-> EmptyTable,
                nd |-> << >>, pl |-> pt.pl, ms |-> << >>, err |-> "none",
                back |-> None],
               NestFirst, NumPhys, HostId + 1, 0, FALSE)

NestInit ==
    \E cr \in { NestCreated } : \E pt \in { NestPte(cr) } :
    \E dn \in { NestDonated(pt) } :
        /\ owners = dn.own
        /\ active = { HostId, HostId + 1 }
        /\ nextId = HostId + 2
        /\ table = [VmInitTable EXCEPT ![HostId] = dn.t, ![HostId + 1] = dn.ct]
        /\ nodes = [i \in Ids |-> IF i = HostId + 1 THEN dn.nd ELSE << >>]
        /\ kind = [i \in Ids |->
                     IF i \in { HostId, HostId + 1 } THEN "vm" ELSE "none"]
        /\ parentOf = [i \in Ids |-> IF i = HostId + 1 THEN HostId ELSE HypId]
        /\ rootOf = [i \in Ids |->
                       IF i = HostId + 1 THEN cr.child.root ELSE empty]
        /\ pool = [i \in Ids |-> << >>]
        /\ poolPage = [i \in Ids |-> None]
        /\ lent = DonatedIn(VmInitTable[HostId], VmInitOwners, HostId, 0,
                            NumPhys, dn.own)
        /\ meas = [i \in Ids |-> dn.ms]
        /\ held = { cr.child.state_page }
        /\ vmRes = Res("create_pages", "Ok", "none", None, HostId + 1, None)
        /\ ops = NestOps
        /\ halted = FALSE

\* The arguments the calls of the nested machine are tried with.
NestFromGpas == { 0, NestFirst, 2 * NestFirst }

NestNext ==
    \/ \E c \in Ids, g \in NestFromGpas :
          CreateGuestRootBuilder(c, g) /\ UNCHANGED seqVars
    \/ \E c \in Ids, g \in NestFromGpas, to \in Ids :
          Add4kPagesBuilder(c, g, 1, to, 0, FALSE) /\ UNCHANGED seqVars
    \/ \E c \in Ids, to \in Ids :
          AddPtePagesBuilder(c, ROOT_PAGES, ROOT_PAGES, to) /\ UNCHANGED seqVars
    \/ \E c \in Ids, g \in NestFromGpas :
          Remove4kPages(c, g, 1) /\ UNCHANGED seqVars
    \/ \E b \in Ids : CreatePages(b) /\ UNCHANGED seqVars

NestStart == SeqIdle /\ NestInit

NestSpec == NestStart /\ [][NestNext]_vars

\* ------------------------------------------------------ GuestRootBuilder

\* A mapping that measures only what it managed to map.
AddDataPageMapFirst(b, gpa, page) ==
    /\ ~halted
    /\ ops > 0
    /\ kind[b] = "builder"
    /\ page \in held
    /\ ops' = ops - 1
    /\ \E m \in { MapPage4k(table[b], nodes[b], pool[b], gpa, page) } :
          /\ meas' = [meas EXCEPT ![b] = IF m.ok
                                          THEN Append(@, << AddrOf(gpa), page >>)
                                          ELSE @]
          /\ table' = [table EXCEPT ![b] = m.t]
          /\ nodes' = [nodes EXCEPT ![b] = m.nd]
          /\ pool' = [pool EXCEPT ![b] = m.pl]
          /\ held' = IF m.ok THEN held \ { page } ELSE held
          /\ vmRes' = Res("add_data_page", IF m.ok THEN "Ok" ELSE "Err",
                          IF m.ok THEN "none" ELSE "Mapping4kPage", None, b,
                          IF m.ok THEN None ELSE page)
    /\ UNCHANGED << owners, active, nextId, kind, parentOf, rootOf, poolPage,
                    lent, halted >>

\* GuestRootBuilder::add_pte_page(page), called with a page the caller holds.
AddPtePage(b, page) ==
    /\ ~halted
    /\ ops > 0
    /\ kind[b] = "builder"
    /\ page \in held
    /\ ops' = ops - 1
    /\ held' = held \ { page }
    /\ IF CanReserve(pool[b])
         THEN /\ pool' = [pool EXCEPT ![b] = Append(@, page)]
              /\ vmRes' = Res("add_pte_page", "Ok", "none", None, b, None)
         ELSE /\ pool' = pool
              /\ vmRes' = Res("add_pte_page", "Err", "InsufficientPtePageStorage",
                              None, b, None)
    /\ UNCHANGED << owners, active, nextId, table, nodes, kind, parentOf, rootOf,
                    poolPage, lent, meas, halted >>

\* GuestRootBuilder::add_data_page(gpa, page): measure, then map.  A page
\* that could not be mapped comes back to the caller in the error.
AddDataPage(b, gpa, page) ==
    /\ ~halted
    /\ ops > 0
    /\ kind[b] = "builder"
    /\ page \in held
    /\ ops' = ops - 1
    /\ meas' = [meas EXCEPT ![b] = Append(@, << AddrOf(gpa), page >>)]
    /\ \E m \in { MapPage4k(table[b], nodes[b], pool[b], gpa, page) } :
          /\ table' = [table EXCEPT ![b] = m.t]
          /\ nodes' = [nodes EXCEPT ![b] = m.nd]
          /\ pool' = [pool EXCEPT ![b] = m.pl]
          /\ held' = IF m.ok THEN held \ { page } ELSE held
          /\ vmRes' = Res("add_data_page", IF m.ok THEN "Ok" ELSE "Err",
                          IF m.ok THEN "none" ELSE "Mapping4kPage", None, b,
                          IF m.ok THEN None ELSE page)
    /\ UNCHANGED << owners, active, nextId, kind, parentOf, rootOf, poolPage,
                    lent, halted >>

\* GuestRootBuilder::add_zero_page(gpa, page): map without measuring.
AddZeroPage(b, gpa, page) ==
    /\ ~halted
    /\ ops > 0
    /\ kind[b] = "builder"
    /\ page \in held
    /\ ops' = ops - 1
    /\ \E m \in { MapPage4k(table[b], nodes[b], pool[b], gpa, page) } :
          /\ table' = [table EXCEPT ![b] = m.t]
          /\ nodes' = [nodes EXCEPT ![b] = m.nd]
          /\ pool' = [pool EXCEPT ![b] = m.pl]
          /\ held' = IF m.ok THEN held \ { page } ELSE held
          /\ vmRes' = Res("add_zero_page", IF m.ok THEN "Ok" ELSE "Err",
                          IF m.ok THEN "none" ELSE "Mapping4kPage", None, b,
                          IF m.ok THEN None ELSE page)
    /\ UNCHANGED << owners, active, nextId, kind, parentOf, rootOf, poolPage,
                    lent, meas, halted >>

\* A host with one guest builder, and a caller that holds the builder's state
\* page and the two pages from BuildFirst on, which are not the host's: the
\* hypervisor is their only owner.
BuildFirst == 18

BuildOps == 4

BuildGpas == { 0, 1, PteSpan }

BuildInit ==
    \E cr \in { NestCreated } :
    \E rm \in { RemoveLoop([own |-> cr.own, t |-> cr.t, err |-> "none",
                             addr |-> None],
                            BuildFirst, BuildFirst + 2, HostId) } :
        /\ owners = rm.own
        /\ active = { HostId, HostId + 1 }
        /\ nextId = HostId + 2
        /\ table = [VmInitTable EXCEPT ![HostId] = rm.t]
        /\ nodes = [i \in Ids |-> << >>]
        /\ kind = [i \in Ids |->
                     IF i = HostId THEN "vm"
                     ELSE IF i = HostId + 1 THEN "builder" ELSE "none"]
        /\ parentOf = [i \in Ids |-> IF i = HostId + 1 THEN HostId ELSE HypId]
        /\ rootOf = [i \in Ids |->
                       IF i = HostId + 1 THEN cr.child.root ELSE empty]
        /\ pool = [i \in Ids |-> << >>]
        /\ poolPage = [i \in Ids |->
                         IF i = HostId + 1 THEN cr.child.pte_page ELSE None]
        /\ lent = DonatedIn(VmInitTable[HostId], VmInitOwners, HostId, 0,
                            NumPhys, cr.own)
        /\ meas = [i \in Ids |-> << >>]
        /\ held = { cr.child.state_page, BuildFirst, BuildFirst + 1 }
        /\ vmRes = Res("remove", "Ok", "none", None, HypId, None)
        /\ ops = BuildOps
        /\ halted = FALSE

BuildNext ==
    \/ \E b \in Ids, p \in Phys : AddPtePage(b, p) /\ UNCHANGED seqVars
    \/ \E b \in Ids, g \in BuildGpas, p \in Phys :
          AddDataPage(b, g, p) /\ UNCHANGED seqVars
    \/ \E b \in Ids, g \in BuildGpas, p \in Phys :
          AddZeroPage(b, g, p) /\ UNCHANGED seqVars
    \/ \E b \in Ids : CreatePages(b) /\ UNCHANGED seqVars

BuildStart == SeqIdle /\ BuildInit

BuildSpec == BuildStart /\ [][BuildNext]_vars

\* ------------------------------------------ building a guest, call by call

\* The calls a VM and the caller make while a guest is built: every call on
\* VmPages that moves pages and every adding call on a GuestRootBuilder.
GuestNext ==
    \/ \E c \in Ids, g \in FromGpas :
          CreateGuestRootBuilder(c, g) /\ UNCHANGED seqVars
    \/ \E c \in Ids, g \in FromGpas, n \in Counts, to \in Ids :
          AddPtePagesBuilder(c, g, n, to) /\ UNCHANGED seqVars
    \/ \E c \in Ids, g \in FromGpas, n \in Counts, to \in Ids, tg \in ToGpas,
          mp \in BOOLEAN :
          Add4kPagesBuilder(c, g, n, to, tg, mp) /\ UNCHANGED seqVars
    \/ \E b \in Ids, p \in Phys : AddPtePage(b, p) /\ UNCHANGED seqVars
    \/ \E b \in Ids, g \in BuildGpas, p \in Phys :
          AddDataPage(b, g, p) /\ UNCHANGED seqVars
    \/ \E b \in Ids, g \in BuildGpas, p \in Phys :
          AddZeroPage(b, g, p) /\ UNCHANGED seqVars
    \/ \E c \in Ids, g \in FromGpas, n \in Counts :
          Remove4kPages(c, g, n) /\ UNCHANGED seqVars

GuestSpec == VmStart /\ [][GuestNext]_vars

\* ------------------------------------------------------- HostRootBuilder

\* The calls made on the host's builder.
HostOps == 3

\* T::max_pte_pages(host_gpa_size / SIZE_BYTES): one page per interior node.
HostPtePages == (NumGpa + PteSpan - 1) \div PteSpan

\* The first page left in host_pages once from_hyp_mem has taken the root and
\* the PTE reservoir.
HostFirst == ROOT_PAGES + HostPtePages

\* The loop of add_4k_data_pages (measure = TRUE) and add_4k_pages over
\* pages.zip(to_addr.iter_from()): w = [own, t, nd, pl, ms, panic].
\* pte_pages.next() is the last element of pl.
RECURSIVE HostLoop(_, _, _, _)
HostLoop(w, pages, gpa, measure) ==
    IF pages = << >>
      THEN w
      ELSE LET page == Head(pages)
               ms1 == IF measure THEN Append(w.ms, << AddrOf(gpa), page >>)
                      ELSE w.ms
               low_bits_agree == AddrOf(gpa) % TOP_LEVEL_ALIGN
                                   = AddrOf(page) % TOP_LEVEL_ALIGN
           IN  IF ~low_bits_agree \/ ~CanPush(w.own, page)
                 THEN [w EXCEPT !.ms = ms1, !.panic = TRUE]
                 ELSE CHOOSE r \in
                        { IF ~m.ok
                            THEN [own |-> Push(w.own, page, HostId), t |-> m.t,
                                  nd |-> m.nd, pl |-> m.pl, ms |-> ms1,
                                  panic |-> TRUE]
                            ELSE HostLoop([own |-> Push(w.own, page, HostId),
                                           t |-> m.t, nd |-> m.nd, pl |-> m.pl,
                                           ms |-> ms1, panic |-> FALSE],
                                          Tail(pages), gpa + 1, measure) :
                          m \in { MapPage4k(w.t, w.nd, w.pl, gpa, page) } } : TRUE

\* The pages count pages from first on, as the iterator handed to the builder.
HostPages(first, count) == [i \in 1 .. count |-> first + i - 1]

\* What both adding calls do to the builder, given the measurement the loop
\* starts from.
HostAdd(op, to_gpa, first, count, measure, ms0) ==
    /\ ~halted
    /\ ops > 0
    /\ kind[HostId] = "hbuilder"
    /\ \A p \in first .. (first + count - 1) : p \in held
    /\ ops' = ops - 1
    /\ held' = held \ (first .. (first + count - 1))
    /\ \E d \in { HostLoop([own |-> owners, t |-> table[HostId],
                             nd |-> nodes[HostId], pl |-> pool[HostId],
                             ms |-> ms0, panic |-> FALSE],
                            HostPages(first, count), to_gpa, measure) } :
          /\ owners' = d.own
          /\ table' = [table EXCEPT ![HostId] = d.t]
          /\ nodes' = [nodes EXCEPT ![HostId] = d.nd]
          /\ pool' = [pool EXCEPT ![HostId] = d.pl]
          /\ meas' = [meas EXCEPT ![HostId] = d.ms]
          /\ halted' = d.panic
          /\ vmRes' = Res(op, IF d.panic THEN "Panic" ELSE "Ok", "none", None,
                          HostId, None)
    /\ UNCHANGED << active, nextId, kind, parentOf, rootOf, poolPage, lent >>

\* HostRootBuilder::add_4k_data_pages(to_addr, pages): the measurement of the
\* returned builder starts from D::default().
HostAdd4kDataPages(to_gpa, first, count) ==
    HostAdd("add_4k_data_pages", to_gpa, first, count, TRUE, << >>)

\* HostRootBuilder::add_4k_pages(to_addr, pages): self.measurement is kept.
HostAdd4kPages(to_gpa, first, count) ==
    HostAdd("host_add_4k_pages", to_gpa, first, count, FALSE, meas[HostId])

\* HostRootBuilder::create_host.
CreateHost ==
    /\ ~halted
    /\ ops > 0
    /\ kind[HostId] = "hbuilder"
    /\ ops' = ops - 1
    /\ kind' = [kind EXCEPT ![HostId] = "vm"]
    /\ vmRes' = Res("create_host", "Ok", "none", None, HostId, None)
    /\ UNCHANGED << owners, active, nextId, table, nodes, parentOf, rootOf, pool,
                    poolPage, lent, meas, held, halted >>

\* HostRootBuilder::from_hyp_mem: the root is the first ROOT_PAGES pages, the
\* PTE reservoir the pages after them, and host_pages what is left; every page
\* has the hypervisor as its only owner.
HostInit ==
    /\ owners = [p \in Phys |-> << HypId >>]
    /\ active = { HostId }
    /\ nextId = HostId + 1
    /\ table = [i \in Ids |-> EmptyTable]
    /\ nodes = [i \in Ids |-> << >>]
    /\ kind = [i \in Ids |-> IF i = HostId THEN "hbuilder" ELSE "none"]
    /\ parentOf = [i \in Ids |-> HypId]
    /\ rootOf = [i \in Ids |->
                   IF i = HostId THEN [addr |-> 0, count |-> ROOT_PAGES]
                   ELSE empty]
    /\ pool = [i \in Ids |->
                 IF i = HostId
                   THEN [k \in 1 .. HostPtePages |-> HostFirst - k]
                   ELSE << >>]
    /\ poolPage = [i \in Ids |-> None]
    /\ lent = { }
    /\ meas = [i \in Ids |-> << >>]
    /\ held = HostFirst .. (NumPhys - 1)
    /\ vmRes = Res("from_hyp_mem", "Ok", "none", None, HostId, None)
    /\ ops = HostOps
    /\ halted = FALSE

\* The arguments the builder is called with.
HostGpas == { 0, 2, PteSpan }

HostFirsts == { 8, 10, 12, 16 }

HostCounts == { 1, 2 }

HostNext ==
    \/ \E g \in HostGpas, p \in HostFirsts, n \in HostCounts :
          HostAdd4kDataPages(g, p, n) /\ UNCHANGED seqVars
    \/ \E g \in HostGpas, p \in HostFirsts, n \in HostCounts :
          HostAdd4kPages(g, p, n) /\ UNCHANGED seqVars
    \/ CreateHost /\ UNCHANGED seqVars

HostStart == SeqIdle /\ HostInit

HostSpec == HostStart /\ [][HostNext]_vars

\* --------------------------------------------------- the stages together

\* Every operation, from both starts: the host's builder, and a host with the
\* builder of a guest.
WholeStart == SeqIdle /\ (HostInit \/ BuildInit)

WholeNext ==
    \/ \E g \in HostGpas, p \in HostFirsts, n \in HostCounts :
          HostAdd4kDataPages(g, p, n) /\ UNCHANGED seqVars
    \/ \E g \in HostGpas, p \in HostFirsts, n \in HostCounts :
          HostAdd4kPages(g, p, n) /\ UNCHANGED seqVars
    \/ CreateHost /\ UNCHANGED seqVars
    \/ \E c \in Ids, g \in NestFromGpas :
          CreateGuestRootBuilder(c, g) /\ UNCHANGED seqVars
    \/ \E c \in Ids, g \in NestFromGpas, to \in Ids :
          Add4kPagesBuilder(c, g, 1, to, 0, FALSE) /\ UNCHANGED seqVars
    \/ \E c \in Ids, to \in Ids :
          AddPtePagesBuilder(c, ROOT_PAGES, ROOT_PAGES, to) /\ UNCHANGED seqVars
    \/ \E c \in Ids, g \in NestFromGpas :
          Remove4kPages(c, g, 1) /\ UNCHANGED seqVars
    \/ \E b \in Ids, p \in Phys : AddPtePage(b, p) /\ UNCHANGED seqVars
    \/ \E b \in Ids, g \in BuildGpas, p \in Phys :
          AddDataPage(b, g, p) /\ UNCHANGED seqVars
    \/ \E b \in Ids, g \in BuildGpas, p \in Phys :
          AddZeroPage(b, g, p) /\ UNCHANGED seqVars
    \/ \E b \in Ids : CreatePages(b) /\ UNCHANGED seqVars
    \/ \E c \in Ids : DropVmPages(c) /\ UNCHANGED seqVars

WholeSpec == WholeStart /\ [][WholeNext]_vars

\* ------------------------------------------- donating across a gap

\* The calls made from DonateInit.
DonateOps == 2

\* The first page the host has unmapped, and how many.
GapFirst == 8

GapPages == 2

\* H.remove_4k_pages(GapFirst, GapPages) after the guest's builder was created.
GapRemoved(cr) ==
    RemoveLoop([own |-> cr.own, t |-> cr.t, err |-> "none", addr |-> None],
               GapFirst, GapFirst + GapPages, HostId)

\* H.add_pte_pages_builder(ROOT_PAGES, ROOT_PAGES, builder) after that.
GapPte(rm) ==
    PteLoop([own |-> rm.own, t |-> rm.t, pl |-> << >>, err |-> "none"],
            ROOT_PAGES, 2 * ROOT_PAGES, HostId + 1)

\* A host that created the builder of a guest at GPA 0, took two of its own
\* pages out of its table, which left a gap there, and gave the builder its
\* PTE pages.
DonateInit ==
    \E cr \in { NestCreated } : \E rm \in { GapRemoved(cr) } :
    \E pt \in { GapPte(rm) } :
        /\ owners = pt.own
        /\ active = { HostId, HostId + 1 }
        /\ nextId = HostId + 2
        /\ table = [VmInitTable EXCEPT ![HostId] = pt.t]
        /\ nodes = [i \in Ids |-> << >>]
        /\ kind = [i \in Ids |->
                     IF i = HostId THEN "vm"
                     ELSE IF i = HostId + 1 THEN "builder" ELSE "none"]
        /\ parentOf = [i \in Ids |-> IF i = HostId + 1 THEN HostId ELSE HypId]
        /\ rootOf = [i \in Ids |->
                       IF i = HostId + 1 THEN cr.child.root ELSE empty]
        /\ pool = [i \in Ids |-> IF i = HostId + 1 THEN pt.pl ELSE << >>]
        /\ poolPage = [i \in Ids |->
                         IF i = HostId + 1 THEN cr.child.pte_page ELSE None]
        /\ lent = DonatedIn(VmInitTable[HostId], VmInitOwners, HostId, 0,
                            NumPhys, pt.own)
        /\ meas = [i \in Ids |-> << >>]
        /\ held = { cr.child.state_page }
        /\ vmRes = Res("add_pte", "Ok", "none", None, HypId, None)
        /\ ops = DonateOps
        /\ halted = FALSE

DonateNext ==
    \/ \E c \in Ids, g \in FromGpas, n \in Counts, to \in Ids, tg \in ToGpas,
          mp \in BOOLEAN :
          Add4kPagesBuilder(c, g, n, to, tg, mp) /\ UNCHANGED seqVars
    \/ \E c \in Ids, g \in FromGpas, n \in Counts :
          Remove4kPages(c, g, n) /\ UNCHANGED seqVars
    \/ \E b \in Ids : CreatePages(b) /\ UNCHANGED seqVars

DonateStart == SeqIdle /\ DonateInit

DonateSpec == DonateStart /\ [][DonateNext]_vars

Init == SeqInit /\ VmIdle

Next ==
    \/ CallFromPages /\ UNCHANGED vmVars
    \/ CallFrom /\ UNCHANGED vmVars
    \/ CallFromMemRange /\ UNCHANGED vmVars
    \/ CallLengthBytes /\ UNCHANGED vmVars
    \/ CallIntoIter /\ UNCHANGED vmVars
    \/ IterNext /\ UNCHANGED vmVars
    \/ CallRoundTrip /\ UNCHANGED vmVars

Spec == Init /\ [][Next]_vars

\* ---------------------------------------------------- claims C1 .. C6

\* l is non-empty and each page lies SIZE_BYTES after the one before it,
\* within the address word.
Consecutive(l) ==
    /\ Len(l) >= 1
    /\ \A i \in 2 .. Len(l) :
          /\ l[i - 1] + SIZE_BYTES < AddrSpace
          /\ l[i] = l[i - 1] + SIZE_BYTES

IsPrefix(a, b) ==
    /\ Len(a) <= Len(b)
    /\ \A i \in 1 .. Len(a) : a[i] = b[i]

\* The accepted prefix of l ends at the highest page and a page follows it.
OverflowCase(l) ==
    \E k \in 1 .. (Len(l) - 1) :
        /\ Consecutive(SubSeq(l, 1, k))
        /\ l[k] = TopAddr

\* C1: whenever from_pages returns Err, enumerating the error's sequence
\* never aborts, yields the input pages in input order, and when it ends it
\* has yielded every input page exactly once.
C1_ErrYieldsEveryInputPage ==
    (origin = "from_pages" /\ ret = "Err") =>
        /\ phase # "panicked"
        /\ IsPrefix(yielded, input)
        /\ (phase = "exhausted" => yielded = input)

\* C2: from_pages returns Ok exactly when the input is non-empty and
\* consecutive without overflow, then with base the first page's address and
\* count the number of pages; an empty input returns Err and its sequence
\* yields nothing.
C2_OkIffConsecutive ==
    origin = "from_pages" =>
        /\ ret \in { "Ok", "Err" }
        /\ (ret = "Ok") <=> Consecutive(input)
        /\ (ret = "Ok" /\ iterKind = "none") =>
               seq = SeqOf(input[1], Len(input))
        /\ (input = << >>) => (ret = "Err" /\ yielded = << >>)

\* C2's case: a range of at least three pages was accepted.
C2_Witness ==
    /\ origin = "from_pages"
    /\ ret = "Ok"
    /\ seq.count >= 3
    /\ seq.addr > 0

\* C3: when the accepted prefix ends at the highest page address and a page
\* follows, from_pages returns Err and enumerating the error yields every
\* input page, with its address, exactly once.
C3_OverflowErrPreservesPages ==
    (origin = "from_pages" /\ OverflowCase(input)) =>
        /\ ret = "Err"
        /\ phase \in { "iterating", "exhausted" }
        /\ (phase = "exhausted" => yielded = input)

\* C4: for a range from_pages returned as Ok, length_bytes() returns the
\* exact byte length count * SIZE_BYTES, without overflow.
C4_LengthBytesExact ==
    (origin = "from_pages" /\ ret = "Ok" /\ lenRes # None) =>
        /\ lenRes = seq.count * SIZE_BYTES
        /\ lenRes < AddrSpace

\* C5: from_pages(seq.into_iter()) returns Ok with the base and the count
\* of seq, however seq was constructed.
C5_RoundTrip ==
    origin = "round_trip" =>
        /\ ret = "Ok"
        /\ (iterKind = "none" => seq = prev)

\* C6: consuming enumeration of a range with base b and count n yields
\* b, b + SIZE_BYTES, ... in ascending order, each aligned, and ends after
\* exactly n pages.
C6_EnumerationYieldsRange ==
    iterKind = "into_iter" =>
        /\ phase # "panicked"
        /\ Len(yielded) <= prev.count
        /\ \A i \in 1 .. Len(yielded) :
              /\ yielded[i] = prev.addr + (i - 1) * SIZE_BYTES
              /\ yielded[i] % SIZE_BYTES = 0
        /\ (phase = "exhausted" => Len(yielded) = prev.count)

\* --------------------------------------------------- claims C7 .. C10

\* The six entries of t from GPA page g on all map a page.
MapsSix(t, g) ==
    /\ g + GUEST_PAGES <= NumGpa
    /\ \A i \in 0 .. (GUEST_PAGES - 1) : t[g + i].st = "valid"

\* C7: create_guest_root_builder(addr) with addr not 16-KiB-aligned returns
\* Err(UnalignedVmPages(addr)) and mutates nothing: the active-guest set,
\* every page table and every owner stack are as before the call.
C7_UnalignedCreateMutatesNothing ==
    [][\A c \in Ids, g \in FromGpas :
         (CreateGuestRootBuilder(c, g) /\ AddrOf(g) % TOP_LEVEL_ALIGN # 0)
           => /\ vmRes' = Res("create", "Err", "UnalignedVmPages", AddrOf(g),
                              HypId, None)
              /\ active' = active
              /\ nextId' = nextId
              /\ table' = table
              /\ owners' = owners
              /\ kind' = kind
              /\ pool' = pool
              /\ poolPage' = poolPage
              /\ halted' = halted]_vars

\* An unaligned create was refused on a machine that already built a guest
\* and gave pages away.
C7_Witness ==
    /\ vmRes.op = "create"
    /\ vmRes.err = "UnalignedVmPages"
    /\ vmRes.addr = AddrOf(1)
    /\ nextId > HostId + 1
    /\ \E p \in Phys : Len(owners[p]) > 2

\* C8: when create_guest_root_builder(from_gpa) succeeds on a VM that maps six
\* pages at an aligned from_gpa, the builder's id is new in the active-guest
\* set and is not the parent's id; each of the six pages has the child's id
\* pushed once; the first four are the child's root, the fifth is its PTE
\* pool, the sixth is the returned state page; the parent maps none of the
\* six GPAs any more.
C8_CreateSuccess ==
    [][\A c \in Ids, g \in FromGpas :
         (/\ CreateGuestRootBuilder(c, g)
          /\ vmRes'.tag = "Ok"
          /\ AddrOf(g) % TOP_LEVEL_ALIGN = 0
          /\ MapsSix(table[c], g))
           => LET id == vmRes'.id
                  pg(i) == table[c][g + i].page
              IN  /\ id \notin active
                  /\ id \in active'
                  /\ id # c
                  /\ kind'[id] = "builder"
                  /\ parentOf'[id] = c
                  /\ \A i \in 0 .. (GUEST_PAGES - 1) :
                        owners'[pg(i)] = Append(owners[pg(i)], id)
                  /\ \A p \in Phys :
                        p \notin { pg(i) : i \in 0 .. (GUEST_PAGES - 1) }
                          => owners'[p] = owners[p]
                  /\ rootOf'[id].count = ROOT_PAGES
                  /\ \A i \in 0 .. (ROOT_PAGES - 1) :
                        AddrOf(pg(i)) = rootOf'[id].addr + i * SIZE_BYTES
                  /\ poolPage'[id] = pg(ROOT_PAGES)
                  /\ pool'[id] = << >>
                  /\ vmRes'.page = pg(ROOT_PAGES + 1)
                  /\ \A i \in 0 .. (GUEST_PAGES - 1) :
                        table'[c][g + i].st # "valid"]_vars

\* A second guest was created, after the host had reclaimed a page.
C8_Witness ==
    /\ vmRes.op = "create"
    /\ vmRes.tag = "Ok"
    /\ vmRes.id = HostId + 2
    /\ kind[vmRes.id] = "builder"
    /\ vmRes.page \in held
    /\ \E g \in Gpas : table[HostId][g].st = "hole"

\* C9: create_guest_root_builder never aborts: it returns Ok or an Error
\* value also when the six-entry range has holes, pages that are not
\* consecutive, or a page whose set_page_owner is rejected.
C9_CreateNeverAborts ==
    vmRes.op = "create" => (vmRes.tag \in { "Ok", "Err" } /\ ~halted)

\* C10: after remove_4k_pages(from, n) returns Ok on a VM, every page it
\* reclaimed has had its owner stack popped once, the popped entry was the
\* VM's id, the new top is the VM's parent owner, and the VM's table no
\* longer maps the page.
C10_RemoveOkReturnsToParent ==
    [][\A c \in Ids, g \in NestFromGpas :
         (Remove4kPages(c, g, 1) /\ vmRes'.tag = "Ok" /\ table[c][g].st # "hole")
           => LET p == table[c][g].page
              IN  /\ owners'[p] = SubSeq(owners[p], 1, Len(owners[p]) - 1)
                  /\ Last(owners[p]) = c
                  /\ Last(owners'[p]) = parentOf[c]
                  /\ table'[c][g] = Hole]_vars

\* --------------------------------------------------- claims C11 .. C20

\* The calls of remove_4k_pages the claims look at: [from, count].
RemoveArgs ==
    { << g, n >> : g \in FromGpas, n \in Counts }
      \cup { << g, 1 >> : g \in NestFromGpas }

\* The donations of c within count pages from from_gpa that are still out.
LentIn(c, from_gpa, count) ==
    { l \in lent : l.donor = c /\ l.gpa \in from_gpa .. (from_gpa + count - 1) }

\* C11: if a parent has donated pages of a GPA range to a child and the
\* child has not given them back, the parent's remove_4k_pages over that range
\* fails with UnownedPage naming the first such page.
C11_ReclaimOfDonatedFails ==
    [][\A c \in Ids, a \in RemoveArgs :
         (/\ Remove4kPages(c, a[1], a[2])
          /\ RangeOk(a[1], a[2])
          /\ LentIn(c, a[1], a[2]) # { })
           => LET first == CHOOSE l \in LentIn(c, a[1], a[2]) :
                              \A m \in LentIn(c, a[1], a[2]) : l.gpa <= m.gpa
              IN  /\ vmRes'.tag = "Err"
                  /\ vmRes'.err = "UnownedPage"
                  /\ vmRes'.addr = AddrOf(first.page)]_vars

\* C12: on a GuestRootBuilder every add_data_page(gpa, page) appends
\* add_page(gpa, page) to the measurement, whether or not the page is then
\* mapped; add_zero_page leaves the measurement alone; a new builder starts
\* from the default measurement; and create_pages hands the measurement to
\* the VmPages unchanged.  So get_measurement() is the fold over the
\* add_data_page calls in call order.
C12_MeasurementIsFoldOfDataPages ==
    [][/\ \A b \in Ids, g \in BuildGpas, p \in Phys :
            /\ AddDataPage(b, g, p)
                  => meas'[b] = Append(meas[b], << AddrOf(g), p >>)
            /\ AddZeroPage(b, g, p) => meas'[b] = meas[b]
       /\ \A b \in Ids :
            /\ CreatePages(b) => (meas'[b] = meas[b] /\ kind'[b] = "vm")
            /\ (kind[b] = "none" /\ kind'[b] = "builder") => meas'[b] = << >>
       /\ \A b \in Ids :
            meas'[b] # meas[b]
              => \/ kind[b] = "none"
                 \/ \E x \in Phys, g \in Gpas :
                       meas'[b] = Append(meas[b], << AddrOf(g), x >>)
                 \/ vmRes'.op = "add_4k"]_vars

\* A measured page that could not be mapped, a zero page that was, and then
\* the builder turned into a VmPages that reports the one measured page.
C12_Witness ==
    /\ vmRes.op = "create_pages"
    /\ Len(meas[vmRes.id]) = 1
    /\ \A g \in Gpas : table[vmRes.id][g].page # meas[vmRes.id][1][2]
    /\ \E g \in Gpas : table[vmRes.id][g].st = "valid"


\* The pages the call add_4k_data_pages(to_gpa, first .. first+count-1)
\* measures, in order.
Measured(to_gpa, first, count) ==
    [i \in 1 .. count |-> << AddrOf(to_gpa + i - 1), first + i - 1 >>]

\* C13: the host's measurement is the fold of add_page over every page of every
\* add_4k_data_pages call, in call order: a call of add_4k_data_pages that
\* returns extends what earlier calls measured, add_4k_pages and create_host
\* leave the measurement as it is.
C13_HostMeasurementAccumulates ==
    [][/\ \A g \in HostGpas, p \in HostFirsts, n \in HostCounts :
            (HostAdd4kDataPages(g, p, n) /\ ~halted')
              => meas'[HostId] = meas[HostId] \o Measured(g, p, n)
       /\ \A g \in HostGpas, p \in HostFirsts, n \in HostCounts :
            HostAdd4kPages(g, p, n) => meas'[HostId] = meas[HostId]
       /\ CreateHost => meas'[HostId] = meas[HostId]]_vars

\* C14: dropping a VmPages takes its owner id, which was registered, out of
\* the active-guest set, once: the id is not active afterwards, no other id's
\* membership changes, the VmPages is gone so that it cannot be dropped again,
\* and no page's owner stack changes.
C14_DropRemovesIdOnce ==
    [][\A c \in Ids :
         DropVmPages(c)
           => /\ c \in active
              /\ c \notin active'
              /\ active' = active \ { c }
              /\ owners' = owners
              /\ kind'[c] # "vm"]_vars

\* A guest was dropped while pages still carry its id.
C14_Witness ==
    /\ vmRes.op = "drop"
    /\ vmRes.id # HostId
    /\ vmRes.id \notin active
    /\ \E p \in Phys : Last(owners[p]) = vmRes.id

\* The principal i holds the page p: as a leaf of its table (mapped, or
\* invalidated and not yet unmapped), in its root, as an interior node of its
\* table, in its builder's PTE pool or as the page that backs the pool.
Holds(i, p) ==
    \/ \E g \in Gpas : table[i][g].st # "hole" /\ table[i][g].page = p
    \/ /\ rootOf[i].count > 0
       /\ AddrOf(p) >= rootOf[i].addr
       /\ AddrOf(p) < rootOf[i].addr + rootOf[i].count * SIZE_BYTES
    \/ \E r \in DOMAIN nodes[i] : nodes[i][r] = p
    \/ \E k \in DOMAIN pool[i] : pool[i][k] = p
    \/ poolPage[i] = p

\* C15: no page leaks on any path: as long as no call has aborted, every page
\* whose owner stack has the id of a VM or builder on top is held by that
\* principal, or is in the hands of the caller (returned in a result or an
\* error).
C15_NoPageLeaks ==
    ~halted =>
      \A p \in Phys :
        Last(owners[p]) \in Ids => (p \in held \/ Holds(Last(owners[p]), p))

Items(c, from_gpa, count, sts) ==
    { g \in from_gpa .. (from_gpa + count - 1) : table[c][g].st \in sts }

\* The item a failing call stopped at: the last entry of the range the call
\* changed (None if it changed none).
FailedAt(c, from_gpa, count) ==
    LET ch == { g \in from_gpa .. (from_gpa + count - 1) :
                  table'[c][g] # table[c][g] }
    IN  IF ch = { } THEN None ELSE CHOOSE g \in ch : \A h \in ch : h <= g

\* The items after the failing one are as they were.
RestUntouched(c, S, f) ==
    \A g \in S :
      g > f => /\ table'[c][g] = table[c][g]
               /\ owners'[table[c][g].page] = owners[table[c][g].page]

\* C17: bulk operations are not atomic: when add_4k_pages_builder,
\* add_pte_pages_builder or remove_4k_pages fails inside its loop at some item,
\* every item before it stays committed (owner id pushed or popped, page mapped
\* in the builder or added to its PTE pool, measurement extended), the items
\* after it are untouched, and the loop's error is what the call returns.
C17_BulkFailureKeepsPrefix ==
    [][/\ \A c \in Ids, g \in FromGpas, n \in Counts, to \in Ids, tg \in ToGpas,
             mp \in BOOLEAN :
            (/\ Add4kPagesBuilder(c, g, n, to, tg, mp)
             /\ vmRes'.err \in { "Mapping4kPage", "SettingOwner" })
              => LET S == Items(c, g, n, { "valid" })
                     f == FailedAt(c, g, n)
                 IN  /\ f \in S
                     /\ RestUntouched(c, S, f)
                     /\ \A x \in S :
                          x < f =>
                            LET p == table[c][x].page
                            IN  /\ table'[c][x].st = "invalid"
                                /\ owners'[p] = Append(owners[p], to)
                                /\ \E y \in Gpas :
                                     table'[to][y] = [st |-> "valid", page |-> p]
                                /\ mp => \E j \in (Len(meas[to]) + 1)
                                                    .. Len(meas'[to]) :
                                            meas'[to][j][2] = p
       /\ \A c \in Ids, g \in FromGpas, n \in Counts, to \in Ids :
            (/\ AddPtePagesBuilder(c, g, n, to)
             /\ vmRes'.err \in { "InsufficientPtePageStorage", "SettingOwner" })
              => LET S == Items(c, g, n, { "valid" })
                     f == FailedAt(c, g, n)
                 IN  /\ f \in S
                     /\ RestUntouched(c, S, f)
                     /\ \A x \in S :
                          x < f =>
                            LET p == table[c][x].page
                            IN  /\ table'[c][x].st = "invalid"
                                /\ owners'[p] = Append(owners[p], to)
                                /\ \E k \in DOMAIN pool'[to] : pool'[to][k] = p
       /\ \A c \in Ids, g \in FromGpas, n \in Counts :
            (/\ Remove4kPages(c, g, n)
             /\ vmRes'.err = "UnownedPage")
              => LET S == Items(c, g, n, { "valid", "invalid" })
                     f == FailedAt(c, g, n)
                 IN  /\ f \in S
                     /\ RestUntouched(c, S, f)
                     /\ \A x \in S :
                          x < f =>
                            LET p == table[c][x].page
                            IN  /\ table'[c][x] = Hole
                                /\ Append(owners'[p], c) = owners[p]]_vars

\* add_4k_pages_builder failed after it had donated, mapped and measured pages.
C17_Witness ==
    /\ vmRes.op = "add_4k"
    /\ vmRes.err = "Mapping4kPage"
    /\ \E b \in Ids :
          /\ kind[b] = "builder"
          /\ meas[b] # << >>
          /\ \E y \in Gpas :
                /\ table[b][y].st = "valid"
                /\ Last(owners[table[b][y].page]) = b

\* C18: when remove_4k_pages fails with UnownedPage(addr) and the owner on top
\* of the stack of the page at addr was not the calling VM, that page's owner
\* stack is after the call what it was before: the call pops no entry of
\* another principal.
C18_FailedRemovePopsNothing ==
    [][\A c \in Ids, a \in RemoveArgs :
         (/\ Remove4kPages(c, a[1], a[2])
          /\ vmRes'.err = "UnownedPage"
          /\ Last(owners[vmRes'.addr \div SIZE_BYTES]) # c)
           => owners'[vmRes'.addr \div SIZE_BYTES]
                = owners[vmRes'.addr \div SIZE_BYTES]]_vars

\* C19: ownership and mapping agree: a page with a valid leaf mapping in the
\* table of a VM or builder has that principal's id on top of its owner stack.
C19_MappedPageIsOwned ==
    \A x \in Ids :
      \A g \in Gpas :
        (kind[x] \in { "vm", "builder" } /\ table[x][g].st = "valid")
          => Last(owners[table[x][g].page]) = x

\* C20: a create_guest_root_builder that returns an error leaves the
\* active-guest set as it was.
C20_FailedCreateRegistersNothing ==
    [][\A c \in Ids, g \in NestFromGpas \cup FromGpas :
         (CreateGuestRootBuilder(c, g) /\ vmRes'.tag = "Err")
           => active' = active]_vars

\* --------------------------------------------------------- claim C21

\* The offsets i of the donor's range at which a page is mapped.
MappedAt(c, from_gpa, count) ==
    { i \in 0 .. (count - 1) : table[c][from_gpa + i].st = "valid" }

\* C21: add_4k_pages_builder preserves offsets: when it succeeds, the page
\* that was mapped at from_gpa + i in the donor is mapped at to_gpa + i in the
\* builder, also when the donor's range has unmapped holes, and the number it
\* returns is the number of pages it donated.
C21_DonationKeepsOffsets ==
    [][\A c \in Ids, g \in FromGpas, n \in Counts, to \in Ids, tg \in ToGpas,
          mp \in BOOLEAN :
         (Add4kPagesBuilder(c, g, n, to, tg, mp) /\ vmRes'.tag = "Ok")
           => /\ \A i \in MappedAt(c, g, n) :
                   table'[to][tg + i] = [st |-> "valid",
                                         page |-> table[c][g + i].page]
              /\ vmRes'.n = Cardinality(MappedAt(c, g, n))]_vars

=========================================================================
